---- MODULE Spec2Model ----
(***************************************************************************)
(* FinanceFlow: the client-side data synchronisation state machine of      *)
(* src/client/pages/Index.tsx (one browser tab).                           *)
(*                                                                         *)
(* JavaScript runs each handler to completion between two awaits, so one   *)
(* action of this module is the code a handler runs from one resumption to *)
(* its next await (or its return), including the promise reactions         *)
(* (microtasks) that the step itself makes runnable.                       *)
(*                                                                         *)
(* A remote call is linearised at the instant its response is delivered:   *)
(* the response step reads or writes `remote` and resumes the caller.      *)
(* Every remote call may also fail (network error, timeout, HTTP error).   *)
(***************************************************************************)
EXTENDS Naturals, FiniteSets

\* ------------------------------------------------------------------ bounds
\* Records each identity owns in each collection of the Remote Store at start.
InitPerOwner == 1
\* Executions of loadDataFromSupabase that may be suspended at the same time.
MaxLoads == 2
\* Mutation handlers that may be suspended at the same time.
MaxMuts == 2
\* Sign-ins the SDK accepts in one run.
MaxSignIns == 2
\* Remote calls that fail in one run.
MaxFaults == 4
\* Mutation handlers the user calls in one run.
MaxCalls == 2
\* JSON.stringify(record).length of an ordinary record, in bytes.
SmallRecord == 100
\* The same for the records of a run that reaches the quota, in megabytes.
LargeRecordMB == 120

\* ------------------------------------------------------- program constants
\* Index.tsx:969  const maxAttempts = 3
maxAttempts == 3
\* Index.tsx:68  const STORAGE_LIMIT_BYTES = 500 * 1024 * 1024
STORAGE_LIMIT_BYTES == 524288000
\* Index.tsx:69  const STORAGE_WARNING_THRESHOLD = 0.9, as the bytes it allows
StorageWarningBytes == (STORAGE_LIMIT_BYTES \div 10) * 9

Users == {"A", "B"}
NoUser == "none"
\* transactions, budgets, recurring_transactions
Colls == {"tx", "bg", "rc"}
LoadIds == 1..MaxLoads
MutIds == 1..MaxMuts
\* loadAbortControllerRef.current === null
NoLoad == 0

VARIABLES
  session,             \* React state `session` (its user id)
  lsSession,           \* localStorage key sb-<ref>-auth-token (its user id)
  sdkSession,          \* the SDK's in-memory session, as getSession() gives it
  cache,               \* React state transactions / budgets / recurring
  remote,              \* the Remote Store's three tables
  loaded,              \* loadedFromSupabaseRef
  lastLoadedUserId,    \* React state lastLoadedUserId
  initialDataLoaded,   \* React state initialDataLoaded
  justLoggedOut,       \* justLoggedOutRef
  prevSession,         \* prevSessionRef (its user id)
  effSession,          \* session?.user?.id as the session effect last saw it
  isLoadingData,       \* isLoadingDataRef
  activeLoadUserId,    \* activeLoadUserIdRef
  loadAbortController, \* loadAbortControllerRef: the load that owns it
  backgroundRetry,     \* backgroundRetryRef: the user id its interval closes over
  loads,               \* suspended executions of loadDataFromSupabase
  tick,                \* the background retry's reads in flight (their user id)
  muts,                \* suspended executions of the mutation handlers
  settled,             \* what the step into this state reported to its caller
  signIns,             \* sign-ins accepted so far
  faults,              \* remote calls failed so far
  calls,               \* mutation handlers called so far
  pageReloaded,        \* pageReloadedRef
  boot,                \* the mount effect's getSession(): where it stands
  logout,              \* handleLogout's background signOut: where it stands
  storageFull,         \* React state storageFull
  recordBytes,         \* JSON.stringify(record).length of the records at hand
  quotaDeps,           \* the collections the quota effect last acted on
  lsExpired,           \* whether the stored session's expires_at has passed
  peer,                \* another tab of the same browser: its load
  toPeer,              \* an {type: "update"} message posted to it, not yet delivered
  inbox                \* an {type: "update"} message it posted, not yet delivered

\* What Commit writes: the refs and state around a call of loadDataFromSupabase.
refVars == <<session, loaded, justLoggedOut, prevSession, isLoadingData,
             activeLoadUserId, loadAbortController, loads, backgroundRetry,
             pageReloaded>>
sdkVars == <<lsSession, sdkSession>>
dataVars == <<cache, remote, lastLoadedUserId, initialDataLoaded>>
boundVars == <<signIns, faults, calls>>
quotaVars == <<storageFull, recordBytes, quotaDeps>>
tabVars == <<peer, toPeer, inbox>>
ownVars == <<boot, logout, quotaVars, lsExpired>>
extVars == <<ownVars, tabVars>>
vars == <<refVars, sdkVars, dataVars, effSession, tick, muts, settled, boundVars,
          extVars>>

\* ------------------------------------------------------------------- data
\* A row: id, user_id, and v standing for its domain fields (edited or not).
OwnerIds(u) == IF u = "A" THEN 1..InitPerOwner ELSE (InitPerOwner + 1)..(2 * InitPerOwner)
InitRows == {[id |-> i, owner |-> u, v |-> 0] : u \in Users, i \in 1..(2 * InitPerOwner)}
InitRemote == {r \in InitRows : r.id \in OwnerIds(r.owner)}
EmptyCache == [c \in Colls |-> {}]
NoRec == [id |-> 0, owner |-> NoUser, v |-> 0]

\* supabase.from(c).select("*").eq("user_id", userId)
Select(c, u) == {r \in remote[c] : r.owner = u}
SelectAll(u) == [c \in Colls |-> Select(c, u)]

\* JSON.stringify(rows).length for an array of records.
StringifyLength(rows) ==
  IF rows = {} THEN 2
  ELSE 2 + Cardinality(rows) * recordBytes + (Cardinality(rows) - 1)
\* checkStorageQuota: totalSize and isOverLimit for the three collections.
TotalSize(ch) ==
  StringifyLength(ch["tx"]) + StringifyLength(ch["bg"]) + StringifyLength(ch["rc"])
IsOverLimit(ch) == TotalSize(ch) > StorageWarningBytes

\* The report of a step in which no call returned to its caller.
NoneSettled == [op |-> "none", c |-> "tx", rec |-> NoRec, user |-> NoUser,
                at |-> "none", ans |-> "none", out |-> "none", n |-> 0,
                bc |-> "none"]
\* A step of loadDataFromSupabase that applied a result (via: "client", "rest").
LoadApplied(u, via) == [NoneSettled EXCEPT !.op = "load", !.user = u,
                                            !.at = via, !.ans = "read", !.out = "ok"]

\* ------------------------------------------------- loadDataFromSupabase
IdleLoad == [pc |-> "idle", user |-> NoUser, attempt |-> 0, aborted |-> FALSE,
             cs |-> NoUser, cont |-> "none", wjlo |-> FALSE]

\* The refs and state a handler's synchronous code reads and writes.
Cur == [session |-> session, loaded |-> loaded, jlo |-> justLoggedOut,
        prev |-> prevSession, isLoading |-> isLoadingData,
        active |-> activeLoadUserId, ctrl |-> loadAbortController,
        loads |-> loads, bg |-> backgroundRetry, reloaded |-> pageReloaded]

Commit(st) ==
  /\ session' = st.session
  /\ loaded' = st.loaded
  /\ justLoggedOut' = st.jlo
  /\ prevSession' = st.prev
  /\ isLoadingData' = st.isLoading
  /\ activeLoadUserId' = st.active
  /\ loadAbortController' = st.ctrl
  /\ loads' = st.loads
  /\ backgroundRetry' = st.bg
  /\ pageReloaded' = st.reloaded

HasFreeSlot(st) == \E k \in LoadIds : st.loads[k].pc = "idle"
FreeSlot(st) == CHOOSE k \in LoadIds :
                  /\ st.loads[k].pc = "idle"
                  /\ \A j \in LoadIds : j < k => st.loads[j].pc # "idle"

\* loadAbortControllerRef.current.abort(); loadAbortControllerRef.current = null
AbortController(st) ==
  IF st.ctrl # NoLoad
    THEN [st EXCEPT !.loads[st.ctrl].aborted = TRUE, !.ctrl = NoLoad]
    ELSE st

\* What the caller of loadDataFromSupabase does once the promise settles.
Continuation(st, l) ==
  LET a == IF l.wjlo THEN [st EXCEPT !.jlo = FALSE] ELSE st
  IN CASE l.cont = "signedIn" -> a
       [] l.cont = "effect" -> [a EXCEPT !.prev = l.cs, !.reloaded = FALSE]
       [] OTHER -> st

\* The finally block, then the caller's continuation; the slot is free again.
Finally(st, k) ==
  LET l == st.loads[k]
      f == IF st.active = l.user
             THEN [st EXCEPT !.isLoading = FALSE, !.active = NoUser,
                             !.ctrl = IF st.ctrl = k THEN NoLoad ELSE st.ctrl]
             ELSE st
  IN Continuation([f EXCEPT !.loads[k] = IdleLoad], l)

\* A load suspended on the queries races them against its abort signal: once
\* aborted it resumes in a microtask, right after the aborting handler's code.
RECURSIVE SettleFrom(_, _)
SettleFrom(st, ks) ==
  IF ks = {} THEN st
  ELSE LET k == CHOOSE x \in ks : TRUE
           l == st.loads[k]
           s == IF l.pc = "queries" /\ l.aborted THEN Finally(st, k) ELSE st
       IN SettleFrom(s, ks \ {k})
Settle(st) == SettleFrom(st, LoadIds)

\* Whether the call gets past its guards and dispatches the queries.
LoadStarts(st, u, force, cs, cl) ==
  LET cur == IF cs # NoUser THEN cs ELSE lsSession
  IN /\ cur = u
     /\ ~(st.isLoading /\ st.active = u)
     /\ ~(~force /\ st.loaded /\ cl = u)

\* The stale-load check that opens loadDataFromSupabase.
CancelStale(st, u) ==
  IF st.active # NoUser /\ st.active # u
    THEN [AbortController(st) EXCEPT !.isLoading = FALSE]
    ELSE st

\* loadDataFromSupabase(userId, {force}) up to its first await. cs and cl are
\* `session` and `lastLoadedUserId` as the calling closure captured them.
CallLoad(st, u, force, cs, cl, cont, wjlo) ==
  LET s1 == CancelStale(st, u)
      me == [IdleLoad EXCEPT !.user = u, !.cs = cs, !.cont = cont, !.wjlo = wjlo]
  IN IF ~LoadStarts(s1, u, force, cs, cl)
       THEN Continuation(s1, me)
       ELSE LET k == FreeSlot(s1)
            IN [s1 EXCEPT !.ctrl = k, !.active = u, !.isLoading = TRUE,
                          !.bg = NoUser,
                          !.session = IF cs = NoUser THEN u ELSE s1.session,
                          !.loads[k] = [me EXCEPT !.pc = "queries", !.attempt = 1]]

\* The model has a slot for the execution the call would start.
CanCall(st, u, force, cs, cl) ==
  LoadStarts(CancelStale(st, u), u, force, cs, cl) => HasFreeSlot(CancelStale(st, u))

\* A mutation handler that is not running.
IdleMut == [pc |-> "idle", op |-> "none", c |-> "tx", rec |-> NoRec,
            user |-> NoUser, snap |-> {}, n |-> 0]

\* ---------------------------------------------------------------- Init
\* The component once its mount effects have run: ls is the session found in
\* localStorage (which the first effect puts in `session`), expired whether
\* its expires_at has passed, bt where the second effect's getSession() stands.
\* pr is the other tab ("absent": this is the only tab).
MountedBeside(ls, expired, reloaded, bt, bytes, pr) ==
  /\ session = ls
  /\ lsSession = ls
  /\ sdkSession = ls
  /\ cache = EmptyCache
  /\ remote = [c \in Colls |-> InitRemote]
  /\ loaded = FALSE
  /\ lastLoadedUserId = NoUser
  /\ initialDataLoaded = FALSE
  /\ justLoggedOut = FALSE
  /\ prevSession = NoUser
  /\ effSession = NoUser
  /\ isLoadingData = FALSE
  /\ activeLoadUserId = NoUser
  /\ loadAbortController = NoLoad
  /\ backgroundRetry = NoUser
  /\ loads = [k \in LoadIds |-> IdleLoad]
  /\ tick = NoUser
  /\ muts = [i \in MutIds |-> IdleMut]
  /\ settled = NoneSettled
  /\ signIns = IF ls = NoUser THEN 0 ELSE 1
  /\ faults = 0
  /\ calls = 0
  /\ pageReloaded = reloaded
  /\ boot = bt
  /\ logout = "idle"
  /\ storageFull = FALSE
  /\ recordBytes = bytes
  /\ quotaDeps = EmptyCache
  /\ lsExpired = expired
  /\ peer = pr
  /\ toPeer = FALSE
  /\ inbox = FALSE

\* The only tab of the browser.
MountedOn(ls, expired, reloaded, bt, bytes) ==
  MountedBeside(ls, expired, reloaded, bt, bytes, "absent")

\* The same, on a stored session that is still valid (or on none).
Mounted(ls, reloaded, bt, bytes) == MountedOn(ls, FALSE, reloaded, bt, bytes)

\* A first visit: nothing stored, getSession() has answered that.
Init == Mounted(NoUser, FALSE, "done", SmallRecord)

\* ------------------------------------------------------- authentication
\* Auth.tsx: signInWithPassword / OAuth accepted. The SDK holds the session and
\* persists it; the Auth screen is what Index renders without any session.
SdkSignIn(u) ==
  /\ session = NoUser /\ lsSession = NoUser /\ sdkSession = NoUser
  /\ signIns < MaxSignIns
  /\ signIns' = signIns + 1
  /\ sdkSession' = u
  /\ lsSession' = u
  /\ lsExpired' = FALSE
  /\ settled' = NoneSettled
  /\ UNCHANGED <<boot, logout, quotaVars, tabVars, refVars, dataVars, effSession,
                 tick, muts, faults, calls>>

\* onAuthStateChange, event SIGNED_IN (the SDK repeats it on tab focus). The
\* listener is the mount effect's closure: its `session` and
\* `lastLoadedUserId` are those of the first render, null.
OnSignedIn(u) ==
  /\ sdkSession = u /\ lsSession = u
  /\ LET isNewSessionEvent == prevSession = NoUser \/ prevSession # u
         wasJustLoggedOut == justLoggedOut
         s0 == [Cur EXCEPT !.session = u]
         s1 == [s0 EXCEPT !.loaded = FALSE]
     IN IF ~isNewSessionEvent /\ ~justLoggedOut /\ ~pageReloaded
          THEN /\ Commit([s0 EXCEPT !.prev = u])
               /\ UNCHANGED lastLoadedUserId
          ELSE /\ CanCall(s1, u, wasJustLoggedOut, NoUser, NoUser)
               /\ Commit(Settle(CallLoad(s1, u, wasJustLoggedOut, NoUser, NoUser,
                                         "signedIn", wasJustLoggedOut)))
               /\ lastLoadedUserId' = u
  /\ settled' = [NoneSettled EXCEPT !.op = "signedIn", !.user = u]
  /\ UNCHANGED <<extVars, sdkVars, effSession, cache, remote, initialDataLoaded, tick,
                 muts, boundVars>>

\* The effect on [session?.user?.id]: loads for a session that is new to
\* prevSessionRef. Its closure holds the render's session and lastLoadedUserId.
SessionEffect ==
  /\ effSession # session
  /\ effSession' = session
  /\ IF session = NoUser \/ (prevSession # NoUser /\ ~pageReloaded)
       THEN Commit([Cur EXCEPT !.prev = session])
       ELSE IF ~justLoggedOut /\ loaded /\ lastLoadedUserId = session /\ ~isLoadingData
         THEN Commit([Cur EXCEPT !.prev = session, !.reloaded = FALSE])
         ELSE /\ CanCall(Cur, session, justLoggedOut, session, lastLoadedUserId)
              /\ Commit(Settle(CallLoad(Cur, session, justLoggedOut, session,
                                        lastLoadedUserId, "effect", justLoggedOut)))
  /\ settled' = NoneSettled
  /\ UNCHANGED <<extVars, sdkVars, dataVars, tick, muts, boundVars>>

\* BroadcastChannel message {type: "update"} from another tab: reload for the
\* SDK's current user. The handler is the mount effect's closure too.
ReceiveUpdate ==
  /\ sdkSession # NoUser
  /\ CanCall(Cur, sdkSession, FALSE, NoUser, NoUser)
  /\ Commit(Settle(CallLoad(Cur, sdkSession, FALSE, NoUser, NoUser, "none", FALSE)))
  /\ settled' = [NoneSettled EXCEPT !.op = "dataChanged", !.user = sdkSession]
  /\ UNCHANGED <<ownVars, sdkVars, effSession, dataVars, tick, muts, boundVars>>

\* The message comes from a tab that is not followed any further.
OnBroadcastUpdate == ReceiveUpdate /\ UNCHANGED tabVars

\* The message comes from the other tab.
OnPeerUpdate ==
  /\ inbox
  /\ inbox' = FALSE
  /\ ReceiveUpdate
  /\ UNCHANGED <<peer, toPeer>>

\* bcRef.current?.postMessage({type: "update"}): every other tab's channel
\* gets the message.
PostUpdate ==
  /\ toPeer' = (toPeer \/ peer # "absent")
  /\ UNCHANGED <<peer, inbox>>

\* A logout that left the cache for the listener's SIGNED_OUT to clear.
HandleLogoutKeepsCache ==
  /\ session # NoUser /\ initialDataLoaded
  /\ LET s1 == AbortController(Cur)
         s2 == [s1 EXCEPT !.isLoading = FALSE, !.active = NoUser,
                          !.session = NoUser, !.loaded = FALSE, !.jlo = TRUE]
     IN Commit(Settle(s2))
  /\ lsSession' = NoUser
  /\ logout' = "getSession"
  /\ settled' = [NoneSettled EXCEPT !.op = "logout", !.out = "ok", !.bc = "sign_out"]
  /\ UNCHANGED <<boot, quotaVars, lsExpired, tabVars, sdkSession, effSession, dataVars, tick, muts,
                 boundVars>>

\* handleLogout up to its fire-and-forget signOut: the Header's button, which
\* Index renders once session is set and initialDataLoaded is true.
HandleLogout ==
  /\ session # NoUser /\ initialDataLoaded
  /\ LET s1 == AbortController(Cur)
         s2 == [s1 EXCEPT !.isLoading = FALSE, !.active = NoUser,
                          !.session = NoUser, !.loaded = FALSE, !.jlo = TRUE]
     IN Commit(Settle(s2))
  /\ lsSession' = NoUser
  /\ cache' = EmptyCache
  /\ lastLoadedUserId' = NoUser
  /\ initialDataLoaded' = FALSE
  /\ logout' = "getSession"
  /\ settled' = [NoneSettled EXCEPT !.op = "logout", !.out = "ok", !.bc = "sign_out"]
  /\ UNCHANGED <<boot, quotaVars, lsExpired, tabVars, sdkSession, effSession, remote, tick, muts, boundVars>>

\* What the SIGNED_OUT branch of the listener does to the refs.
SignedOutRefs(st) ==
  LET s1 == AbortController(st)
  IN [s1 EXCEPT !.isLoading = FALSE, !.active = NoUser, !.bg = NoUser,
                !.session = NoUser, !.loaded = FALSE, !.jlo = TRUE]

\* The SDK's session ends (handleLogout's background signOut, or a sign-out the
\* SDK learns of) and onAuthStateChange gets SIGNED_OUT.
OnSignedOut ==
  /\ sdkSession # NoUser
  /\ logout \in {"idle", "signOut"}
  /\ logout' = "idle"
  /\ sdkSession' = NoUser
  /\ lsSession' = NoUser
  /\ Commit(Settle(SignedOutRefs(Cur)))
  /\ cache' = EmptyCache
  /\ lastLoadedUserId' = NoUser
  /\ initialDataLoaded' = FALSE
  /\ settled' = [NoneSettled EXCEPT !.op = "signedOut", !.bc = "sign_out"]
  /\ UNCHANGED <<boot, quotaVars, lsExpired, tabVars, effSession, remote, tick, muts, boundVars>>

\* handleLogout's background block: its getSession() has answered and it calls
\* supabase.auth.signOut().
LogoutSignOutIssued ==
  /\ logout = "getSession"
  /\ logout' = "signOut"
  /\ settled' = [NoneSettled EXCEPT !.op = "signOutCall"]
  /\ UNCHANGED <<refVars, sdkVars, dataVars, effSession, tick, muts, boundVars,
                 boot, quotaVars, lsExpired, tabVars>>

\* A listener that took the event's session as it came, null included.
OnTokenRefreshedTakesNull(s) ==
  /\ sdkSession # NoUser /\ lsSession = sdkSession
  /\ s \in {NoUser, sdkSession}
  /\ Commit([Cur EXCEPT !.session = s])
  /\ settled' = [NoneSettled EXCEPT !.op = "authEvent", !.user = s]
  /\ UNCHANGED <<sdkVars, dataVars, effSession, tick, muts, boundVars, extVars>>

\* onAuthStateChange, event TOKEN_REFRESHED or any event other than SIGNED_IN
\* and SIGNED_OUT, carrying newSession s (null when the refresh failed).
OnTokenRefreshed(s) ==
  /\ sdkSession # NoUser /\ lsSession = sdkSession
  /\ s \in {NoUser, sdkSession}
  /\ Commit([Cur EXCEPT !.session = IF s # NoUser THEN s ELSE Cur.session])
  /\ settled' = [NoneSettled EXCEPT !.op = "authEvent", !.user = s]
  /\ UNCHANGED <<sdkVars, dataVars, effSession, tick, muts, boundVars, extVars>>

\* BroadcastChannel message {type: "sign_out"}: another tab ran handleLogout,
\* which removed the shared localStorage session before it posted.
OnBroadcastSignOut ==
  /\ sdkSession # NoUser /\ logout = "idle"
  /\ lsSession' = NoUser
  /\ Commit([Cur EXCEPT !.session = NoUser, !.loaded = FALSE, !.jlo = TRUE])
  /\ cache' = EmptyCache
  /\ lastLoadedUserId' = NoUser
  /\ initialDataLoaded' = FALSE
  /\ settled' = [NoneSettled EXCEPT !.op = "crossTabSignOut"]
  /\ UNCHANGED <<sdkSession, effSession, remote, tick, muts, boundVars, extVars>>

\* ------------------------------------------------ the mount effect's getSession
\* The page opens on a stored session: the first effect has put it in
\* `session`, the second has registered the listeners and called getSession().
InitBoot ==
  \E u \in Users, reloaded \in BOOLEAN : Mounted(u, reloaded, "first", SmallRecord)

\* setSession(s); loadedFromSupabaseRef.current = false;
\* await loadDataFromSupabase(s.user.id) -- the closure's lastLoadedUserId is
\* null, so the already-loaded shortcut at l.258 never applies.
BootLoad(u) ==
  LET s1 == [Cur EXCEPT !.session = u, !.loaded = FALSE]
  IN /\ CanCall(s1, u, FALSE, NoUser, NoUser)
     /\ Commit(Settle(CallLoad(s1, u, FALSE, NoUser, NoUser, "none", FALSE)))
     /\ UNCHANGED <<sdkVars, dataVars>>

\* getSession() of the mount effect is answered. ans: "timeout" (5 s passed,
\* the call is repeated), "throws" (the repeated call rejected), "session",
\* "null" (no session, no error), "refreshToken" (error naming the refresh
\* token: the handler signs out), "error" (any other error).
BootAnswered(ans) ==
  /\ boot \in {"first", "retry"}
  /\ boot' = IF ans = "timeout" THEN "retry" ELSE "done"
  /\ settled' = [NoneSettled EXCEPT !.op = "getSession", !.at = boot, !.ans = ans]
  /\ CASE ans = "timeout" ->
            /\ boot = "first"
            /\ UNCHANGED <<refVars, sdkVars, dataVars>>
       [] ans = "throws" ->
            /\ boot = "retry"
            /\ IF lsSession # NoUser THEN BootLoad(lsSession)
                                     ELSE UNCHANGED <<refVars, sdkVars, dataVars>>
       [] ans = "session" ->
            /\ sdkSession # NoUser
            /\ BootLoad(sdkSession)
       [] ans = "null" ->
            /\ sdkSession = NoUser
            /\ Commit([Cur EXCEPT !.session = NoUser, !.loaded = FALSE])
            /\ UNCHANGED <<sdkVars, dataVars>>
       [] ans = "refreshToken" ->
            /\ sdkSession # NoUser
            /\ sdkSession' = NoUser
            /\ lsSession' = NoUser
            /\ Commit(Settle(SignedOutRefs(Cur)))
            /\ cache' = EmptyCache
            /\ lastLoadedUserId' = NoUser
            /\ initialDataLoaded' = FALSE
            /\ UNCHANGED remote
       [] OTHER ->
            /\ ans = "error"
            /\ sdkSession # NoUser
            /\ UNCHANGED <<refVars, sdkVars, dataVars>>
  /\ lsExpired' = IF ans = "session" THEN FALSE ELSE lsExpired
  /\ UNCHANGED <<effSession, tick, muts, boundVars, logout, quotaVars, tabVars>>

\* ------------------------------------------------------ checkStorageQuota
\* A check that warned whenever the size is over the threshold.
CheckStorageQuotaLevel(full, ch) ==
  [full |-> IsOverLimit(ch), warn |-> IsOverLimit(ch)]

\* checkStorageQuota() with storageFull = full: the flag it leaves and whether
\* it called console.warn.
CheckStorageQuota(full, ch) ==
  [full |-> IF IsOverLimit(ch) /\ ~full THEN TRUE
            ELSE IF ~IsOverLimit(ch) /\ full THEN FALSE
            ELSE full,
   warn |-> IsOverLimit(ch) /\ ~full]

\* A run of the effect on [transactions, budgets, recurring], which a change
\* of a collection triggers, that does something; the runs that change and
\* report nothing are stuttering steps.
QuotaDue ==
  LET r == CheckStorageQuota(storageFull, cache)
  IN cache # quotaDeps /\ (r.full # storageFull \/ r.warn)

QuotaEffect ==
  LET r == CheckStorageQuota(storageFull, cache)
  IN /\ QuotaDue
     /\ storageFull' = r.full
     /\ quotaDeps' = cache
     /\ settled' = [NoneSettled EXCEPT !.op = "quota",
                      !.ans = IF r.warn THEN "warn" ELSE "none"]
     /\ UNCHANGED <<refVars, sdkVars, dataVars, effSession, tick, muts, boundVars,
                    boot, logout, recordBytes, lsExpired, tabVars>>

\* ------------------------------------------- loadDataFromSupabase, resumed
\* A success exit that clears the active-load identity and leaves the flag set.
ReleaseOnSuccessKeepsFlag(st, k, onlyOwn) ==
  [st EXCEPT !.active = NoUser,
             !.ctrl = IF onlyOwn /\ st.ctrl # k THEN st.ctrl ELSE NoLoad]

\* Lines 1251-1254 and 1417-1422: the success exits release the lock.
ReleaseOnSuccess(st, k, onlyOwn) ==
  [st EXCEPT !.isLoading = FALSE, !.active = NoUser,
             !.ctrl = IF onlyOwn /\ st.ctrl # k THEN st.ctrl ELSE NoLoad]

\* Lines 1438-1451: every attempt and the REST fallback failed.
FailureExit(st, k) ==
  LET l == st.loads[k]
  IN IF l.aborted THEN Finally(st, k)
     ELSE Finally([st EXCEPT !.loaded = FALSE,
                             !.bg = IF st.bg = NoUser THEN l.user ELSE st.bg,
                             !.isLoading = FALSE, !.active = NoUser,
                             !.ctrl = IF st.ctrl = k THEN NoLoad ELSE st.ctrl], k)

\* What the REST fallback writes: transactions as fetched, budgets and
\* recurring as fetched or [] when their fetch failed.
RestResult(u, bgOk, rcOk) ==
  [c \in Colls |-> IF c = "tx" \/ (c = "bg" /\ bgOk) \/ (c = "rc" /\ rcOk)
                     THEN Select(c, u) ELSE {}]

\* The three selects answered without error: the success path.
LoadQueriesOk(k) ==
  LET l == loads[k]
  IN /\ l.pc = "queries"
     /\ cache' = SelectAll(l.user)
     /\ lastLoadedUserId' = l.user
     /\ initialDataLoaded' = TRUE
     /\ LET s1 == [Cur EXCEPT !.loaded = TRUE]
        IN IF l.cs = NoUser
             THEN Commit([s1 EXCEPT !.loads[k].pc = "postSess"])
             ELSE Commit(Finally(ReleaseOnSuccess(s1, k, FALSE), k))
     /\ settled' = LoadApplied(l.user, "client")
     /\ PostUpdate
     /\ UNCHANGED <<ownVars, sdkVars, effSession, remote, tick, muts, boundVars>>

\* Lines 1233-1255: getSession after a successful load by a closure without a
\* session; tok is whether it answered in time.
LoadPostSessDone(k) ==
  LET l == loads[k]
  IN /\ l.pc = "postSess"
     /\ \E tok \in BOOLEAN :
          LET s1 == IF tok /\ sdkSession # NoUser /\ ~l.aborted
                      THEN [Cur EXCEPT !.session = sdkSession] ELSE Cur
          IN Commit(Finally(ReleaseOnSuccess(s1, k, FALSE), k))
     /\ settled' = NoneSettled
     /\ UNCHANGED <<extVars, sdkVars, effSession, dataVars, tick, muts, boundVars>>

\* What a failed request failed with: the network or the 45 s timeout, or the
\* server's rejection of the credential.
ErrorClasses == {"network", "authorization"}

\* The select of collection bad failed with an error of class err, or timed
\* out, while the other two answered with their rows: back off, or after the
\* last attempt go to the REST fallback (tok: getSession gave a token when
\* neither the closure's session nor localStorage has one).
LoadQueriesFail(k, err, bad) ==
  LET l == loads[k]
  IN /\ l.pc = "queries"
     /\ faults < MaxFaults
     /\ faults' = faults + 1
     /\ IF l.attempt < maxAttempts
          THEN Commit([Cur EXCEPT !.loads[k].pc = "backoff"])
          ELSE \E tok \in BOOLEAN :
                 IF l.cs # NoUser \/ lsSession = l.user \/ tok
                   THEN Commit([Cur EXCEPT
                          !.session = IF l.cs = NoUser /\ lsSession = l.user
                                        THEN l.user ELSE Cur.session,
                          !.loads[k].pc = "rest"])
                   ELSE Commit(FailureExit(Cur, k))
     /\ settled' = [NoneSettled EXCEPT !.op = "loadError", !.user = l.user,
                                       !.ans = err, !.c = bad]
     /\ UNCHANGED <<extVars, sdkVars, effSession, dataVars, tick, muts, signIns, calls>>

\* The backoff timer fires: return if aborted, else the next attempt.
LoadBackoffDone(k) ==
  LET l == loads[k]
  IN /\ l.pc = "backoff"
     /\ IF l.aborted
          THEN Commit(Finally(Cur, k))
          ELSE \E tok \in BOOLEAN :
                 IF l.cs = l.user \/ lsSession = l.user \/ tok \/ l.attempt + 1 = maxAttempts
                   THEN Commit([Cur EXCEPT
                          !.session = IF l.cs = NoUser /\ lsSession = l.user
                                        THEN l.user ELSE Cur.session,
                          !.loads[k].attempt = l.attempt + 1,
                          !.loads[k].pc = "queries"])
                   ELSE Commit([Cur EXCEPT !.loads[k].attempt = l.attempt + 1])
     /\ settled' = NoneSettled
     /\ UNCHANGED <<extVars, sdkVars, effSession, dataVars, tick, muts, boundVars>>

\* The REST fallback's three fetches answered: transactions decides, budgets
\* and recurring are best effort and default to [].
LoadRestDone(k) ==
  LET l == loads[k]
  IN /\ l.pc = "rest"
     /\ \E txOk, bgOk, rcOk \in BOOLEAN :
          /\ (txOk /\ bgOk /\ rcOk) \/ faults < MaxFaults
          /\ faults' = IF txOk /\ bgOk /\ rcOk THEN faults ELSE faults + 1
          /\ IF ~txOk
               THEN /\ Commit(FailureExit(Cur, k))
                    /\ settled' = NoneSettled
                    /\ UNCHANGED <<cache, lastLoadedUserId, initialDataLoaded, tabVars>>
               ELSE IF l.aborted
                 THEN /\ Commit(Finally(Cur, k))
                      /\ settled' = NoneSettled
                      /\ UNCHANGED <<cache, lastLoadedUserId, initialDataLoaded, tabVars>>
                 ELSE /\ cache' = RestResult(l.user, bgOk, rcOk)
                      /\ PostUpdate
                      /\ lastLoadedUserId' = l.user
                      /\ initialDataLoaded' = TRUE
                      /\ settled' = LoadApplied(l.user, "rest")
                      /\ LET s1 == [Cur EXCEPT
                                      !.loaded = TRUE,
                                      !.session = IF l.cs # NoUser THEN Cur.session
                                                  ELSE IF lsSession = l.user THEN l.user
                                                  ELSE IF sdkSession # NoUser THEN sdkSession
                                                  ELSE Cur.session]
                         IN Commit(Finally(ReleaseOnSuccess(s1, k, TRUE), k))
     /\ UNCHANGED <<ownVars, sdkVars, effSession, remote, tick, muts, signIns, calls>>

\* ----------------------------------------------- scheduleBackgroundRetry
\* The interval fires and dispatches its three selects.
RetryTick ==
  /\ backgroundRetry # NoUser
  /\ tick = NoUser
  /\ tick' = backgroundRetry
  /\ settled' = NoneSettled
  /\ UNCHANGED <<extVars, refVars, sdkVars, dataVars, effSession, muts, boundVars>>

\* They answered without error: write the data and clear the interval.
RetryOk ==
  /\ tick # NoUser
  /\ cache' = SelectAll(tick)
  /\ Commit([Cur EXCEPT !.loaded = TRUE, !.bg = NoUser])
  /\ lastLoadedUserId' = tick
  /\ tick' = NoUser
  /\ settled' = [NoneSettled EXCEPT !.op = "retry", !.user = tick,
                                    !.ans = "read", !.out = "ok"]
  /\ PostUpdate
  /\ UNCHANGED <<ownVars, sdkVars, effSession, remote, initialDataLoaded, muts, boundVars>>

\* One of them failed: try again at the next tick.
RetryFail ==
  /\ tick # NoUser
  /\ faults < MaxFaults
  /\ faults' = faults + 1
  /\ tick' = NoUser
  /\ settled' = NoneSettled
  /\ UNCHANGED <<extVars, refVars, sdkVars, dataVars, effSession, muts, signIns, calls>>

\* ------------------------------------------------------- mutation handlers
\* A handler's reaction to an answer: where it goes on (pc "idle": it has
\* returned), what it leaves in its collection of the cache, and whether its
\* promise resolved ("ok"), rejected ("fail") or is still pending.
React(pc, coll, out) == [pc |-> pc, coll |-> coll, out |-> out]

\* transactions.map((t) => (t.id === updatedTransaction.id ? updatedTransaction : t))
MapRec(rows, rec) == {IF t.id = rec.id THEN rec ELSE t : t \in rows}
\* prev.filter((t) => t.id !== id)
FilterId(rows, id) == {t \in rows : t.id # id}
\* The row a write sends: {...record, user_id: userId}
Row(m) == [m.rec EXCEPT !.owner = m.user]

\* A create that merged its record into the cache instead of replacing the
\* cache by the read.
AddTxOnRereadMerged(m, ok, rows, cur) ==
  IF ok THEN React("idle", cur \cup {m.rec}, "ok") ELSE React("idle", cur, "fail")

\* handleAddTransaction: after the POST, after the GET.
AddTxOnInsert(m, ok, cur) ==
  IF ok THEN React("reread", cur, "pending") ELSE React("idle", cur, "fail")
AddTxOnReread(m, ok, rows, cur) ==
  IF ok THEN React("idle", rows, "ok") ELSE React("idle", cur, "fail")

\* handleAddBudget, handleAddRecurring: the catch block falls back to a local
\* add and does not rethrow.
AddBgOnInsert(m, ok, cur) ==
  IF ok THEN React("reread", cur, "pending")
        ELSE React("idle", m.snap \cup {m.rec}, "ok")
AddBgOnReread(m, ok, rows, cur) ==
  IF ok THEN React("idle", rows, "ok")
        ELSE React("idle", m.snap \cup {m.rec}, "ok")

\* handleDeleteTransaction: after the DELETE (ans: "error", "rows", "zero"),
\* after the verification select (ans: "error", "exists", "absent"), after the
\* reload (whose failure the inner catch swallows).
DelTxOnDelete(m, ans, cur) ==
  CASE ans = "error" -> React("idle", m.snap, "fail")
    [] ans = "zero" -> React("verify", cur, "pending")
    [] OTHER -> React("reread", cur, "pending")
DelTxOnVerify(m, ans, cur) ==
  IF ans = "absent" THEN React("idle", cur, "ok")
                    ELSE React("idle", m.snap, "fail")
DelTxOnReread(m, ok, rows, cur) ==
  IF ok THEN React("idle", rows, "ok") ELSE React("idle", m.snap, "ok")

\* handleDeleteBudget, handleDeleteRecurring: the catch block removes the
\* record locally and rethrows.
DelBgOnDelete(m, ok, cur) ==
  IF ok THEN React("reread", cur, "pending")
        ELSE React("idle", FilterId(cur, m.rec.id), "fail")
DelBgOnReread(m, ok, rows, cur) ==
  IF ok THEN React("idle", rows, "ok")
        ELSE React("idle", FilterId(cur, m.rec.id), "fail")

\* handleUpdateTransaction: the catch block falls back to a local update and
\* does not rethrow.
UpdTxOnUpsert(m, ok, cur) ==
  IF ok THEN React("reread", cur, "pending")
        ELSE React("idle", MapRec(m.snap, m.rec), "ok")
UpdTxOnReread(m, ok, rows, cur) ==
  IF ok THEN React("idle", rows, "ok")
        ELSE React("idle", MapRec(m.snap, m.rec), "ok")

\* The Header, forms and tables are rendered: a session and its initial data.
MainUi == session # NoUser /\ initialDataLoaded
HasFreeMut == \E i \in MutIds : muts[i].pc = "idle"
FreeMut == CHOOSE i \in MutIds :
             /\ muts[i].pc = "idle"
             /\ \A j \in MutIds : j < i => muts[j].pc # "idle"
\* uuidv4()
NewId == 2 * InitPerOwner + calls + 1

\* A handler is called and runs to its first await: its request is sent.
Called(m, coll) ==
  /\ MainUi /\ HasFreeMut
  /\ calls < MaxCalls
  /\ calls' = calls + 1
  /\ muts' = [muts EXCEPT ![FreeMut] = [m EXCEPT !.user = session, !.n = 1]]
  /\ cache' = [cache EXCEPT ![m.c] = coll]
  /\ settled' = NoneSettled
  /\ UNCHANGED <<extVars, refVars, sdkVars, remote, lastLoadedUserId, initialDataLoaded,
                 effSession, tick, signIns, faults>>

\* A handler resumes with an answer and reacts to it. The {type: "update"}
\* message the transaction handlers post on success is received by no one:
\* the specifications with mutations have no other tab (peer = "absent").
Resumed(i, r, ans, failed) ==
  /\ ~failed \/ faults < MaxFaults
  /\ faults' = IF failed THEN faults + 1 ELSE faults
  /\ muts' = [muts EXCEPT ![i] =
                IF r.pc = "idle" THEN IdleMut
                ELSE [muts[i] EXCEPT !.pc = r.pc,
                                     !.n = IF r.pc = muts[i].pc THEN @ + 1 ELSE @]]
  /\ cache' = [cache EXCEPT ![muts[i].c] = r.coll]
  /\ settled' = [op |-> muts[i].op, c |-> muts[i].c, rec |-> muts[i].rec,
                 user |-> muts[i].user, at |-> muts[i].pc, ans |-> ans,
                 out |-> r.out, n |-> muts[i].n, bc |-> "none"]
  /\ UNCHANGED <<extVars, refVars, sdkVars, lastLoadedUserId, initialDataLoaded,
                 effSession, tick, signIns, calls>>

\* The TransactionForm's `submitting` state: its submit button is disabled
\* from the call of onAddTransaction until the promise settles. The form is
\* unmounted with the session that rendered it.
Submitting ==
  \E i \in MutIds : /\ muts[i].pc # "idle" /\ muts[i].user = session
                    /\ muts[i].op = "add" /\ muts[i].c = "tx"

\* handleAddTransaction(newTransaction) up to its POST.
handleAddTransaction ==
  /\ ~storageFull /\ ~Submitting
  /\ Called([IdleMut EXCEPT !.pc = "insert", !.op = "add", !.c = "tx",
                            !.rec = [NoRec EXCEPT !.id = NewId]],
            cache["tx"])

\* handleAddBudget(budget) / handleAddRecurring(trans) up to the insert.
handleAddBudget(c) ==
  /\ ~storageFull
  /\ Called([IdleMut EXCEPT !.pc = "insert", !.op = "add", !.c = c,
                            !.rec = [NoRec EXCEPT !.id = NewId],
                            !.snap = cache[c]],
            cache[c])

\* handleDeleteTransaction(id) up to its DELETE: the optimistic removal.
handleDeleteTransaction(r) ==
  /\ r \in cache["tx"]
  /\ Called([IdleMut EXCEPT !.pc = "delete", !.op = "del", !.c = "tx",
                            !.rec = r, !.snap = cache["tx"]],
            FilterId(cache["tx"], r.id))

\* handleDeleteBudget(id) / handleDeleteRecurring(id) up to the delete.
handleDeleteBudget(c, r) ==
  /\ r \in cache[c]
  /\ Called([IdleMut EXCEPT !.pc = "delete", !.op = "del", !.c = c, !.rec = r],
            cache[c])

\* handleUpdateTransaction(updatedTransaction) up to its upsert.
handleUpdateTransaction(r) ==
  /\ r \in cache["tx"] /\ r.v = 0
  /\ Called([IdleMut EXCEPT !.pc = "upsert", !.op = "upd", !.c = "tx",
                            !.rec = [r EXCEPT !.v = 1], !.snap = cache["tx"]],
            cache["tx"])

\* The user_id a handler's request in flight is filtered by (or carries as a
\* field); NoUser when the request names no user_id: the REST DELETE of
\* handleDeleteTransaction (?id=eq.<id>) and its verification select.
OwnerFilter(m) ==
  IF m.c = "tx" /\ m.pc \in {"delete", "verify"} THEN NoUser ELSE m.user
\* The rows a request by id selects.
Matches(t, m) ==
  t.id = m.rec.id /\ (OwnerFilter(m) = NoUser \/ t.owner = OwnerFilter(m))

\* The insert is answered: stored, or failed.
InsertAnswered(i) ==
  LET m == muts[i]
  IN /\ m.pc = "insert"
     /\ \E ok \in BOOLEAN :
          /\ remote' = IF ok THEN [remote EXCEPT ![m.c] = @ \cup {Row(m)}] ELSE remote
          /\ Resumed(i, IF m.c = "tx" THEN AddTxOnInsert(m, ok, cache[m.c])
                                      ELSE AddBgOnInsert(m, ok, cache[m.c]),
                     IF ok THEN "inserted" ELSE "error", ~ok)

\* The owner-scoped select that follows a write is answered.
RereadAnswered(i) ==
  LET m == muts[i]
      rows == Select(m.c, m.user)
      cur == cache[m.c]
  IN /\ m.pc = "reread"
     /\ remote' = remote
     /\ \E ok \in BOOLEAN :
          Resumed(i, CASE m.op = "add" /\ m.c = "tx" -> AddTxOnReread(m, ok, rows, cur)
                       [] m.op = "add" /\ m.c # "tx" -> AddBgOnReread(m, ok, rows, cur)
                       [] m.op = "del" /\ m.c = "tx" -> DelTxOnReread(m, ok, rows, cur)
                       [] m.op = "del" /\ m.c # "tx" -> DelBgOnReread(m, ok, rows, cur)
                       [] OTHER -> UpdTxOnReread(m, ok, rows, cur),
                     IF ok THEN "read" ELSE "error", ~ok)

\* The transactions DELETE (by id) is answered: an error; the rows it deleted;
\* or no rows, because the row is gone, or the server left it alone, or the
\* server deleted it and returned no representation.
DeleteTxAnswered(i) ==
  LET m == muts[i]
      gone == [remote EXCEPT !["tx"] = {t \in @ : ~Matches(t, m)}]
  IN /\ m.pc = "delete" /\ m.c = "tx"
     /\ \E ans \in {"error", "rows", "zero"} : \E applied \in BOOLEAN :
          /\ ans = "rows" => applied /\ gone # remote
          /\ ans = "error" => ~applied
          /\ remote' = IF applied THEN gone ELSE remote
          /\ Resumed(i, DelTxOnDelete(m, ans, cache["tx"]), ans, ans = "error")

\* The verification select (by id) is answered.
VerifyAnswered(i) ==
  LET m == muts[i]
      stillExists == \E t \in remote["tx"] : Matches(t, m)
  IN /\ m.pc = "verify"
     /\ remote' = remote
     /\ \E ok \in BOOLEAN :
          LET ans == IF ~ok THEN "error" ELSE IF stillExists THEN "exists" ELSE "absent"
          IN Resumed(i, DelTxOnVerify(m, ans, cache["tx"]), ans, ~ok)

\* The budgets / recurring delete (by id and user_id) is answered.
DeleteBgAnswered(i) ==
  LET m == muts[i]
  IN /\ m.pc = "delete" /\ m.c # "tx"
     /\ \E ok \in BOOLEAN :
          /\ remote' = IF ok
                         THEN [remote EXCEPT ![m.c] =
                                 {t \in @ : ~Matches(t, m)}]
                         ELSE remote
          /\ Resumed(i, DelBgOnDelete(m, ok, cache[m.c]),
                     IF ok THEN "deleted" ELSE "error", ~ok)

\* The upsert (onConflict: id) is answered.
UpsertAnswered(i) ==
  LET m == muts[i]
  IN /\ m.pc = "upsert"
     /\ \E ok \in BOOLEAN :
          /\ remote' = IF ok
                         THEN [remote EXCEPT !["tx"] = FilterId(@, m.rec.id) \cup {Row(m)}]
                         ELSE remote
          /\ Resumed(i, UpdTxOnUpsert(m, ok, cache["tx"]),
                     IF ok THEN "upserted" ELSE "error", ~ok)

\* ---------------------------------------------------------------- Next
\* React runs the effects of a render before the browser hands it the next
\* event: while the session effect is pending, nothing else runs.
Flushed == effSession = session /\ ~QuotaDue

NextAuth ==
  \/ \E u \in Users : SdkSignIn(u)
  \/ \E u \in Users : OnSignedIn(u)
  \/ OnBroadcastUpdate
  \/ HandleLogout
  \/ LogoutSignOutIssued
  \/ OnSignedOut

NextLoadOk ==
  \/ \E k \in LoadIds : LoadQueriesOk(k)
  \/ \E k \in LoadIds : LoadPostSessDone(k)

\* The failures of loads, with the selects' errors drawn from errs and the
\* failing collection from bads.
LoadFailures(errs, bads) ==
  \/ \E k \in LoadIds : \E err \in errs : \E bad \in bads : LoadQueriesFail(k, err, bad)
  \/ \E k \in LoadIds : LoadBackoffDone(k)
  \/ \E k \in LoadIds : LoadRestDone(k)
  \/ RetryTick
  \/ RetryOk
  \/ RetryFail

NextLoadFail == LoadFailures(ErrorClasses, Colls)

NextMut ==
  \/ handleAddTransaction
  \/ \E c \in Colls \ {"tx"} : handleAddBudget(c)
  \/ \E r \in cache["tx"] : handleDeleteTransaction(r)
  \/ \E c \in Colls \ {"tx"} : \E r \in cache[c] : handleDeleteBudget(c, r)
  \/ \E r \in cache["tx"] : handleUpdateTransaction(r)
  \/ \E i \in MutIds : InsertAnswered(i)
  \/ \E i \in MutIds : RereadAnswered(i)
  \/ \E i \in MutIds : DeleteTxAnswered(i)
  \/ \E i \in MutIds : VerifyAnswered(i)
  \/ \E i \in MutIds : DeleteBgAnswered(i)
  \/ \E i \in MutIds : UpsertAnswered(i)

\* The mount effect's getSession and the events of a tab that shares its
\* session with other tabs.
BootAnswers == {"timeout", "throws", "session", "null", "refreshToken", "error"}
NextBootAuth ==
  \/ \E ans \in BootAnswers : BootAnswered(ans)
  \/ \E s \in Users \cup {NoUser} : OnTokenRefreshed(s)
  \/ OnBroadcastSignOut

Next ==
  \/ SessionEffect
  \/ QuotaEffect
  \/ Flushed /\ (NextAuth \/ NextBootAuth \/ NextLoadOk \/ NextLoadFail \/ NextMut)

Spec == Init /\ [][Next]_vars

\* One tab's authentication and loads, no mutation.
NextLoads ==
  \/ SessionEffect
  \/ Flushed /\ (NextAuth \/ NextLoadOk \/ NextLoadFail)

SpecLoad == Init /\ [][NextLoads]_vars

\* The first session of a run.
FirstSignIn(u) == signIns = 0 /\ SdkSignIn(u)

NextFirstSession ==
  \/ \E u \in Users : FirstSignIn(u)
  \/ \E u \in Users : OnSignedIn(u)
  \/ OnBroadcastUpdate
  \/ HandleLogout
  \/ LogoutSignOutIssued
  \/ OnSignedOut

\* One session's mutations among loads that succeed.
NextMuts ==
  \/ SessionEffect
  \/ Flushed /\ (NextFirstSession \/ NextLoadOk \/ NextMut)

SpecMut == Init /\ [][NextMuts]_vars

\* A tab that opens on a stored session: authentication and loads. The load
\* reacts alike to every failure of its selects; one stands for them here.
NextBoots ==
  \/ SessionEffect
  \/ Flushed /\ (\/ NextBootAuth \/ NextAuth \/ NextLoadOk
                 \/ LoadFailures({"network"}, {"tx"}))

SpecBoot == InitBoot /\ [][NextBoots]_vars

\* Startup: the page opens on whatever localStorage holds (nothing, a valid
\* session or an expired one) and the mount effect's getSession() is pending.
InitStartup ==
  \/ MountedOn(NoUser, FALSE, FALSE, "first", SmallRecord)
  \/ \E u \in Users, expired \in BOOLEAN :
       MountedOn(u, expired, FALSE, "first", SmallRecord)
NextStartup ==
  \/ SessionEffect
  \/ Flushed /\ (\/ \E ans \in BootAnswers : BootAnswered(ans)
                 \/ NextLoadOk
                 \/ \E k \in LoadIds : LoadQueriesFail(k, "network", "tx")
                 \/ \E k \in LoadIds : LoadBackoffDone(k)
                 \/ \E k \in LoadIds : LoadRestDone(k))

SpecStartup == InitStartup /\ [][NextStartup]_vars

\* ------------------------------------------------------------ two tabs
\* The other tab runs the same component under the same session. Its update
\* handler is the mount effect's closure as well: a load in flight absorbs
\* the message (l.935-938), otherwise a load starts, since the closure's
\* lastLoadedUserId is null (l.942-945).
PeerReceivesUpdate ==
  /\ toPeer /\ peer # "absent"
  /\ toPeer' = FALSE
  /\ peer' = "loading"
  /\ settled' = NoneSettled
  /\ UNCHANGED <<inbox, ownVars, refVars, sdkVars, dataVars, effSession, tick, muts,
                 boundVars>>

\* Its selects answer: it applies the rows and posts {type: "update"} (l.1200).
PeerLoadOk ==
  /\ peer = "loading"
  /\ peer' = "idle"
  /\ inbox' = TRUE
  /\ settled' = NoneSettled
  /\ UNCHANGED <<toPeer, ownVars, refVars, sdkVars, dataVars, effSession, tick, muts,
                 boundVars>>

\* This tab opens on the session the other tab, loaded and idle, is using;
\* nobody touches either tab any more.
InitTabs ==
  \E u \in Users : MountedBeside(u, FALSE, FALSE, "done", SmallRecord, "idle")
NextTabs ==
  \/ SessionEffect
  \/ Flushed /\ (\/ OnPeerUpdate
                 \/ PeerReceivesUpdate
                 \/ PeerLoadOk
                 \/ NextLoadOk
                 \/ \E k \in LoadIds : LoadQueriesFail(k, "network", "tx")
                 \/ \E k \in LoadIds : LoadBackoffDone(k)
                 \/ \E k \in LoadIds : LoadRestDone(k))

\* Effects run, messages are delivered and reads that can succeed do.
SpecTabs ==
  /\ InitTabs /\ [][NextTabs]_vars
  /\ WF_vars(SessionEffect)
  /\ WF_vars(Flushed /\ OnPeerUpdate)
  /\ WF_vars(Flushed /\ PeerReceivesUpdate)
  /\ WF_vars(Flushed /\ PeerLoadOk)
  /\ WF_vars(Flushed /\ NextLoadOk)

\* The first session's loads and the background retry, left to run: effects
\* run, timers fire, and a read that can succeed does.
NextInitialLoad ==
  \/ SessionEffect
  \/ Flushed /\ (\/ \E u \in Users : FirstSignIn(u)
                 \/ \E u \in Users : OnSignedIn(u)
                 \/ OnBroadcastUpdate
                 \/ NextLoadOk
                 \/ \E k \in LoadIds : \E err \in ErrorClasses : \E bad \in Colls :
                      LoadQueriesFail(k, err, bad)
                 \/ \E k \in LoadIds : LoadBackoffDone(k)
                 \/ \E k \in LoadIds : LoadRestDone(k)
                 \/ RetryTick
                 \/ RetryOk)

SpecInitialLoad ==
  /\ Init /\ [][NextInitialLoad]_vars
  /\ WF_vars(SessionEffect)
  /\ WF_vars(Flushed /\ NextLoadOk)
  /\ WF_vars(Flushed /\ \E k \in LoadIds : LoadBackoffDone(k))
  /\ WF_vars(Flushed /\ RetryTick)
  /\ WF_vars(Flushed /\ RetryOk)

\* One session's mutations on records large enough to reach the quota.
InitQuota == Mounted(NoUser, FALSE, "done", LargeRecordMB * 1024 * 1024)
NextQuota ==
  \/ SessionEffect
  \/ QuotaEffect
  \/ Flushed /\ (NextFirstSession \/ NextLoadOk \/ NextMut)

SpecQuota == InitQuota /\ [][NextQuota]_vars

\* ------------------------------------------------------------ properties
\* C1: whenever an identity is authenticated, the Local Cache holds no record
\* that a different identity owns.
C1_NoCrossOwnerLeakage ==
  \A c \in Colls : \A r \in cache[c] :
    (session # NoUser /\ r.owner # NoUser) => r.owner = session

\* C2: a load that applies a result empties no collection that held records of
\* its identity unless the Remote Store has none for that identity, that is,
\* unless the collection's own read could have returned the empty list.
C2_NoSilentEviction ==
  [][settled'.op = "load" =>
       \A c \in Colls :
         ((\E r \in cache[c] : r.owner = settled'.user) /\ cache'[c] = {})
           => Select(c, settled'.user) = {}]_vars

\* C3: no two executions of the load that were not aborted have remote reads
\* in flight for the same identity.
C3_AtMostOneLoadPerIdentity ==
  \A j, k \in LoadIds :
    (/\ j # k
     /\ loads[j].pc \in {"queries", "rest"} /\ ~loads[j].aborted
     /\ loads[k].pc \in {"queries", "rest"} /\ ~loads[k].aborted)
    => loads[j].user # loads[k].user

\* C6: when a load applies its result, the Local Cache equals the Remote
\* Store's records of that identity, collection by collection, and the loaded
\* flag is set for it.
C6_SuccessfulLoadResult ==
  settled.op = "load" =>
    /\ cache = SelectAll(settled.user)
    /\ loaded
    /\ lastLoadedUserId = settled.user

\* C10: a load applies its result only while the identity it was started for
\* is still the authenticated one.
C10_CancellableLoad ==
  settled.op = "load" => session = settled.user

\* Whether the cache shows a record with the id of the one a call was about.
InCache(c, rec) == \E r \in cache[c] : r.id = rec.id

\* C4: in each collection, a delete whose remote delete fails rejects to its
\* caller and leaves the record in the Local Cache.
C4_OptimisticDeleteRollback ==
  (settled.op = "del" /\ settled.at = "delete" /\ settled.ans = "error")
    => (settled.out = "fail" /\ InCache(settled.c, settled.rec))

\* C5: a transactions delete answered with zero rows goes on to the
\* verification read; when that read fails or finds the row, the delete
\* rejects and the record is back in the Local Cache; when it finds no row,
\* the delete resolves and the record is not in the Local Cache.
C5_AmbiguousDeleteVerification ==
  /\ (settled.op = "del" /\ settled.at = "delete" /\ settled.ans = "zero")
       => /\ settled.out = "pending"
          /\ \E i \in MutIds : muts[i].pc = "verify" /\ muts[i].rec = settled.rec
  /\ (settled.at = "verify" /\ settled.ans \in {"exists", "error"})
       => (settled.out = "fail" /\ InCache("tx", settled.rec))
  /\ (settled.at = "verify" /\ settled.ans = "absent")
       => (settled.out = "ok" /\ ~InCache("tx", settled.rec))

\* The row a create call sent, as the Remote Store holds it.
Stored(s) == [s.rec EXCEPT !.owner = s.user]

C8_CreateFailureLeavesCache ==
  (settled.op = "add" /\ settled.at = "insert" /\ settled.ans = "error")
    => (settled.out = "fail" /\ ~InCache(settled.c, settled.rec))

\* C9: once the active owner's data is loaded and neither a mutation nor a
\* load is in flight, every record of the Local Cache is a record the Remote
\* Store holds for that owner.
C9_NoSilentDivergence ==
  (/\ session # NoUser /\ loaded /\ lastLoadedUserId = session
   /\ \A i \in MutIds : muts[i].pc = "idle"
   /\ \A k \in LoadIds : loads[k].pc = "idle")
    => \A c \in Colls : cache[c] \subseteq Select(c, session)

\* Whether the step dispatched the reads of a load.
LoadDispatched ==
  \E k \in LoadIds : loads[k].pc = "idle" /\ loads'[k].pc # "idle"

\* C11: a TOKEN_REFRESHED event, or a SIGNED_IN event for the identity that is
\* authenticated and whose data is loaded, dispatches no load, unless a
\* forced reload is pending (a sign-out or a page reload came before).
C11_NoReloadOnRoutineRefresh ==
  [][(/\ settled'.op \in {"signedIn", "authEvent"}
      /\ session # NoUser /\ settled'.user \in {session, NoUser}
      /\ loaded /\ lastLoadedUserId = session
      /\ ~justLoggedOut /\ ~pageReloaded)
       => ~LoadDispatched]_vars

\* C12: the session goes from an identity to none only in a step that is an
\* explicit sign-out (handleLogout, SIGNED_OUT), the mount getSession's
\* invalid-refresh-token branch, or a cross-tab sign_out message.
C12_AnonymousOnlyForDefinitiveReasons ==
  [][(session # NoUser /\ session' = NoUser)
       => \/ settled'.op \in {"logout", "signedOut", "crossTabSignOut"}
          \/ settled'.op = "getSession" /\ settled'.ans = "refreshToken"]_vars

\* The mount getSession failed for another reason than the refresh token and
\* the stored session is still the tab's session.
C12_Witness ==
  /\ settled.op = "getSession" /\ settled.ans = "error"
  /\ session # NoUser /\ session = lsSession

\* C13: every request a mutation handler has in flight is filtered by (or
\* carries) the user_id of the identity that called it, which is the
\* authenticated identity.
C13_OwnerScopedCalls ==
  \A i \in MutIds :
    muts[i].pc # "idle"
      => (OwnerFilter(muts[i]) = muts[i].user /\ muts[i].user = session)

\* C14: the at-capacity flag changes only in the quota effect, to TRUE only
\* when the size is above the threshold and to FALSE only when it is not; the
\* warning is given in exactly the steps that take the flag from FALSE to
\* TRUE; and while the flag and the size disagree nothing but an effect runs,
\* so each crossing flips the flag once.
C14_CapacityEdgeTriggered ==
  [][/\ storageFull' # storageFull => settled'.op = "quota"
     /\ (~storageFull /\ storageFull') => IsOverLimit(cache')
     /\ (storageFull /\ ~storageFull') => ~IsOverLimit(cache')
     /\ (settled'.op = "quota" /\ settled'.ans = "warn")
          <=> (~storageFull /\ storageFull')
     /\ storageFull # IsOverLimit(cache)
          => (settled'.op = "quota" \/ effSession' # effSession)]_vars

\* The flag went up and has come down again after a record was removed.
C14_Witness ==
  /\ settled.op = "quota" /\ settled.ans = "none"
  /\ ~storageFull /\ ~IsOverLimit(cache)
  /\ session # NoUser /\ cache["tx"] # {}

\* C15: the step of handleLogout leaves the session none, the Local Cache
\* empty, the stored session removed and the loaded flag reset, and has posted
\* sign_out, while signOut() is not yet called and the SDK still holds its
\* session; signOut() is called only by the background block that
\* handleLogout started.
C15_SignOutOrdering ==
  [][/\ settled'.op = "logout"
          => /\ session' = NoUser /\ cache' = EmptyCache /\ lsSession' = NoUser
             /\ ~loaded' /\ lastLoadedUserId' = NoUser
             /\ settled'.bc = "sign_out" /\ settled'.out = "ok"
             /\ logout' = "getSession" /\ sdkSession' = sdkSession
     /\ (logout' = "signOut" /\ logout # "signOut")
          => (settled'.op = "signOutCall" /\ logout = "getSession")]_vars

\* signOut() is being called for a session the tab has already left.
C15_Witness ==
  /\ settled.op = "signOutCall" /\ logout = "signOut"
  /\ sdkSession # NoUser /\ session = NoUser /\ cache = EmptyCache

\* C16: the background retry interval exists only for the authenticated
\* identity, and a read of the retry is applied only while the identity it was
\* started for is still the authenticated one.
C16_BackgroundRetryLifecycle ==
  /\ backgroundRetry # NoUser => backgroundRetry = session
  /\ settled.op = "retry" => settled.user = session

\* C17: a create, update or delete started under identity U applies nothing
\* to the Local Cache when it resumes (after its remote call, its verification
\* or its read-after-write) while the session is no longer U's: no replacement
\* by the re-read, no rollback snapshot, no local fallback write.
C17_MutationCancelled ==
  [][(settled'.op \in {"add", "del", "upd"} /\ settled'.user # session)
       => cache' = cache]_vars

\* C18: the step that receives another tab's signed-out notification leaves
\* the session anonymous, the Local Cache empty and the loaded flag down, and
\* leaves no load running uncancelled and no background retry armed or in
\* flight, so that nothing started before it can repopulate the cache.
C18_CrossTabSignOutCancels ==
  [][settled'.op = "crossTabSignOut"
       => /\ session' = NoUser /\ cache' = EmptyCache /\ ~loaded'
          /\ backgroundRetry' = NoUser /\ tick' = NoUser
          /\ \A k \in LoadIds : loads'[k].pc # "idle" => loads'[k].aborted]_vars

\* Whether an execution of the load for identity u is running and was not
\* cancelled.
LoadInFlight(u) ==
  \E k \in LoadIds : loads[k].pc # "idle" /\ loads[k].user = u /\ ~loads[k].aborted

\* C19: a data-changed notification received under an active identity
\* dispatches a load for that identity when none is in flight for it, and
\* starts no second load when one is.
C19_DataChangedDispatch ==
  [][(settled'.op = "dataChanged" /\ session # NoUser /\ settled'.user = session)
       => (LoadDispatched <=> ~LoadInFlight(session))]_vars

\* C20: under one identity, no two mutations of the transactions collection
\* have their remote write (insert, delete or upsert) outstanding at the same
\* time: the second is not sent before the first has settled.
C20_SerializedMutations ==
  \A i, j \in MutIds :
    (/\ i # j
     /\ muts[i].c = "tx" /\ muts[i].pc \in {"insert", "delete", "upsert"}
     /\ muts[j].c = "tx" /\ muts[j].pc \in {"insert", "delete", "upsert"})
    => muts[i].user # muts[j].user

\* Whether a mutation of collection c is still in flight.
MutationPending(c) ==
  \E i \in MutIds : muts[i].pc # "idle" /\ muts[i].c = c

\* C21: a load or a background retry that applies its result leaves alone
\* every collection of the Local Cache that has a mutation in flight.
C21_LoadKeepsPendingMutations ==
  [][settled'.op \in {"load", "retry"}
       => \A c \in Colls : MutationPending(c) => cache'[c] = cache[c]]_vars

\* C22: a read of a load that fails with an authorization error forces the
\* sign-out (the session becomes none) and is not retried: the load neither
\* backs off for another attempt nor goes on to the REST fallback.
C22_AuthorizationErrorSignsOut ==
  [][(settled'.op = "loadError" /\ settled'.ans = "authorization")
       => /\ session' = NoUser
          /\ \A k \in LoadIds :
               (loads[k].pc = "queries" /\ loads'[k].pc # "queries")
                 => loads'[k].pc = "idle"]_vars

\* C23: when one collection's read fails within a load while the other two
\* are read, the step leaves the rows read in the other two collections of
\* the Local Cache.
C23_CollectionsIndependent ==
  [][settled'.op = "loadError"
       => \A c \in Colls \ {settled'.c} :
            cache'[c] = Select(c, settled'.user)]_vars

\* C24: once the startup session fetch has failed or timed out, the session
\* is the locally stored one if there is one and it has not expired, and
\* none otherwise.
C24_BootstrapFallback ==
  (settled.op = "getSession" /\ settled.ans \in {"timeout", "throws", "error"})
    => session = (IF lsSession # NoUser /\ ~lsExpired THEN lsSession ELSE NoUser)

\* Neither tab has a load running and no update message is on its way.
Quiescent ==
  /\ ~toPeer /\ ~inbox /\ peer # "loading"
  /\ \A k \in LoadIds : loads[k].pc = "idle"

\* C25: two tabs signed in as the same identity, left alone, come to rest:
\* from some point on no load is running and no update message is pending.
C25_NoPingPong == <>[]Quiescent

\* C26: once a read for the authenticated identity has been applied, by a
\* load's client attempt, its REST fallback or the background retry, the
\* initial-data-loaded flag eventually is true (or the session has ended).
C26_LoadingStateEnds ==
  (settled.op \in {"load", "retry"} /\ settled.user = session)
    ~> (initialDataLoaded \/ session = NoUser)

\* C27: the step that rolls back a failed transaction delete leaves the
\* transactions of the Local Cache as they stood just before it, plus the
\* restored record, and nothing else changed.
C27_RollbackRestoresOnlyRecord ==
  [][(settled'.op = "del" /\ settled'.c = "tx" /\ settled'.out = "fail")
       => cache'["tx"] = cache["tx"] \cup {settled'.rec}]_vars

\* C28: when handleAddTransaction rejects to its caller, the Remote Store
\* holds no transaction with the id generated for that call.
C28_RejectedCreateStoredNothing ==
  (settled.op = "add" /\ settled.c = "tx" /\ settled.out = "fail")
    => ~\E t \in remote["tx"] : t.id = settled.rec.id

\* How far a load execution is from returning: each resumption of the
\* while loop at 972 and of the REST fallback moves it strictly down.
LoadRank(l) ==
  CASE l.pc = "queries" -> 2 * (maxAttempts - l.attempt) + 3
    [] l.pc = "backoff" -> 2 * (maxAttempts - l.attempt) + 2
    [] l.pc = "rest" -> 1
    [] OTHER -> 0

\* C29: a load makes at most maxAttempts read attempts and reaches the REST
\* fallback only after the last of them, every resumption brings it closer
\* to its return, and whenever no load execution is active the in-flight flag
\* isLoadingDataRef is false.
C29_LoadReleasesLock ==
  /\ [](\A k \in LoadIds :
         /\ loads[k].attempt <= maxAttempts
         /\ loads[k].pc = "rest" => loads[k].attempt = maxAttempts)
  /\ []((\A k \in LoadIds : loads[k].pc = "idle") => ~isLoadingData)
  /\ [][\A k \in LoadIds :
         (/\ loads[k].pc # "idle" /\ loads'[k].pc # "idle"
          /\ <<loads[k].pc, loads[k].attempt>> # <<loads'[k].pc, loads'[k].attempt>>)
           => LoadRank(loads'[k]) < LoadRank(loads[k])]_vars

\* A load used up its three attempts and the REST fallback, scheduled the
\* background retry and returned: no execution is left and the flag is false.
C29_Witness ==
  /\ faults = MaxFaults
  /\ backgroundRetry # NoUser
  /\ \A k \in LoadIds : loads[k].pc = "idle"
  /\ ~isLoadingData

\* C30: when an aborted load returns through its finally block while a newer,
\* not aborted load for the same identity is still running, the return
\* changes neither isLoadingDataRef nor activeLoadUserIdRef.
C30_SupersededLoadKeepsLock ==
  [][\A k, j \in LoadIds :
       (/\ j # k
        /\ loads[k].aborted /\ loads[k].pc \in {"backoff", "rest"}
        /\ loads'[k].pc = "idle"
        /\ loads[j].pc # "idle" /\ ~loads[j].aborted
        /\ loads[j].user = loads[k].user
        /\ loads'[j] = loads[j])
       => /\ isLoadingData' = isLoadingData
          /\ activeLoadUserId' = activeLoadUserId]_vars

====
